---- MODULE Spec2Model ----
(***************************************************************************)
(* The PrusaLink integration (homeassistant/components/prusalink):         *)
(* the three polling coordinators with their adaptive update interval,     *)
(* and the setup / credential-migration / unload flow of a config entry.   *)
(***************************************************************************)
EXTENDS Integers, Sequences, FiniteSets

(* ------------------------------ bounds -------------------------------- *)

\* The clock runs from 0 to MaxTime seconds, in steps of TickStep seconds.
MaxTime == 30
TickStep == 10
\* Each client method can answer with one of NumValues distinct payloads.
NumValues == 2
\* The API keys (later passwords) a stored configuration can hold.
NumKeys == 2

(* ------------------------- program constants -------------------------- *)

ExpectChangeWindow == 30
ShortInterval == 5
LongInterval == 30

DOMAIN_NAME == "prusalink"
ISSUE_ID == "firmware_5_1_required"
CONF_API_KEY == "api_key"
CONF_HOST == "host"
CONF_PASSWORD == "password"
CONF_USERNAME == "username"

(* ------------------------------ universe ------------------------------ *)

Entries == {"e1", "e2"}
\* The coordinators dict with the status coordinator inserted first.
CoordinatorOrder_status_first == <<"status", "legacy_status", "job">>

\* The coordinators dict of async_setup_entry, in its insertion order.
CoordinatorOrder == <<"legacy_status", "status", "job">>
Coordinators == {CoordinatorOrder[i] : i \in 1..Len(CoordinatorOrder)}
Messages == {"connection refused", "bad gateway"}

None == <<>>

VARIABLES
    now,            \* time.monotonic(), in seconds
    entry_version,  \* entry.version of each config entry
    entry_data,     \* entry.data of each config entry (a dict)
    issues,         \* the issue registry: (domain, issue id) -> issue
    hass_data,      \* the keys of hass.data[DOMAIN]; hass.data[DOMAIN][e] is coordinators[e]
    pc,             \* where async_setup_entry / async_unload_entry of each entry stands
    refreshing,     \* index in CoordinatorOrder of the first refresh being awaited
    api,            \* the PrusaLink client the running or finished setup holds
    unload_result,  \* what the last async_unload_entry of each entry returned
    calls,          \* the calls the current (or last) setup of each entry has made, in order
    setup_result,   \* what the last async_setup_entry of each entry returned or raised
    coordinators,   \* the coordinator objects of each entry
    called_at,      \* when expect_change() was last called on a coordinator (-1: never)
    last            \* the refresh that ended in the step just taken, if one did: whose, what
                    \* the client did, how _async_update_data ended

vars == <<now, entry_version, entry_data, issues, hass_data, pc, refreshing, api,
          calls, setup_result, unload_result, coordinators, called_at, last>>

(* ------------------------ the printer API client ---------------------- *)

\* What one call of a client method can do: answer with a payload of that
\* method, raise InvalidAuth, raise another PrusaLinkError with a message, or
\* not answer within the caller's timeout.
Payload(method, v) == <<method, v>>

ApiOk(method, v) == [kind |-> "ok", payload |-> Payload(method, v), msg |-> ""]
ApiInvalidAuth == [kind |-> "InvalidAuth", payload |-> None, msg |-> ""]
ApiError(m) == [kind |-> "PrusaLinkError", payload |-> None, msg |-> m]
ApiNoAnswer == [kind |-> "timeout", payload |-> None, msg |-> ""]

ApiResults(method) ==
    {ApiOk(method, v) : v \in 1..NumValues}
        \cup {ApiInvalidAuth, ApiNoAnswer}
        \cup {ApiError(m) : m \in Messages}

\* PrusaLink(session, host, username, password)
PrusaLink(host, username, password) ==
    [host |-> host, username |-> username, password |-> password]

NoApi == PrusaLink("", "", 0)

(* -------------------- PrusaLinkUpdateCoordinator ---------------------- *)

\* _get_update_interval: the short interval while a change is expected.
_get_update_interval(self, data, t) ==
    IF self.expect_change_until > t THEN ShortInterval ELSE LongInterval

\* A constructor that does not pass update_interval on.
PrusaLinkUpdateCoordinator_no_interval(client, t) ==
    [exists |-> TRUE, api |-> client, data |-> None,
     update_interval |-> 0, expect_change_until |-> 0]

\* The class attributes and __init__: expect_change_until = 0.0, self.api = api,
\* update_interval=self._get_update_interval(None); the base class starts with
\* no data.
PrusaLinkUpdateCoordinator(client, t) ==
    LET self == [exists |-> TRUE, api |-> client, data |-> None,
                 update_interval |-> 0, expect_change_until |-> 0]
    IN [self EXCEPT !.update_interval = _get_update_interval(self, None, t)]

\* The slot of a coordinator that is not constructed.
NoCoordinator ==
    [exists |-> FALSE, api |-> NoApi, data |-> None, update_interval |-> 0,
     expect_change_until |-> 0]

\* The status coordinator awaiting the legacy method.
_fetch_data_swapped(c) ==
    CASE c = "status" -> "get_legacy_printer"
      [] c = "legacy_status" -> "get_legacy_printer"
      [] c = "job" -> "get_job"

\* _fetch_data of StatusCoordinator, LegacyStatusCoordinator and
\* JobUpdateCoordinator: the client method each one awaits.
_fetch_data(c) ==
    CASE c = "status" -> "get_status"
      [] c = "legacy_status" -> "get_legacy_printer"
      [] c = "job" -> "get_job"

\* expect_change with the short interval as its window.
expect_change_short(self, t) ==
    [self EXCEPT !.expect_change_until = t + ShortInterval]

\* expect_change that sets the short interval at once.
expect_change_eager(self, t) ==
    [self EXCEPT !.expect_change_until = t + ExpectChangeWindow,
                 !.update_interval = ShortInterval]

\* expect_change: self.expect_change_until = monotonic() + 30
expect_change(self, t) ==
    [self EXCEPT !.expect_change_until = t + ExpectChangeWindow]

\* How a call of _async_update_data ends.
Returned(payload) == [kind |-> "return", payload |-> payload, msg |-> ""]
UpdateFailed(m) == [kind |-> "UpdateFailed", payload |-> None, msg |-> m]
TimeoutError == [kind |-> "TimeoutError", payload |-> None, msg |-> ""]
NoOutcome == [kind |-> "none", payload |-> None, msg |-> ""]

\* _async_update_data with one except clause for every PrusaLinkError, which
\* reports each of them as an authentication failure.
_async_update_data_one_except(self, r, t) ==
    CASE r.kind = "timeout" ->
            [self |-> self, outcome |-> TimeoutError]
      [] r.kind \in {"InvalidAuth", "PrusaLinkError"} ->
            [self |-> self, outcome |-> UpdateFailed("Invalid authentication")]
      [] r.kind = "ok" ->
            [self |-> [self EXCEPT !.update_interval =
                                      _get_update_interval(self, r.payload, t)],
             outcome |-> Returned(r.payload)]

\* _async_update_data with an except clause that turns the timeout into
\* UpdateFailed.
_async_update_data_catch_timeout(self, r, t) ==
    CASE r.kind = "timeout" ->
            [self |-> self, outcome |-> UpdateFailed("timeout")]
      [] r.kind = "InvalidAuth" ->
            [self |-> self, outcome |-> UpdateFailed("Invalid authentication")]
      [] r.kind = "PrusaLinkError" ->
            [self |-> self, outcome |-> UpdateFailed(r.msg)]
      [] r.kind = "ok" ->
            [self |-> [self EXCEPT !.update_interval =
                                      _get_update_interval(self, r.payload, t)],
             outcome |-> Returned(r.payload)]

\* _async_update_data recomputing the interval in a finally clause, on the
\* failing paths too.
_async_update_data_finally(self, r, t) ==
    LET again == [self EXCEPT !.update_interval = _get_update_interval(self, None, t)]
    IN CASE r.kind = "timeout" ->
               [self |-> again, outcome |-> TimeoutError]
         [] r.kind = "InvalidAuth" ->
               [self |-> again, outcome |-> UpdateFailed("Invalid authentication")]
         [] r.kind = "PrusaLinkError" ->
               [self |-> again, outcome |-> UpdateFailed(r.msg)]
         [] r.kind = "ok" ->
               [self |-> again, outcome |-> Returned(r.payload)]

\* _async_update_data with its except clauses in the other order: InvalidAuth
\* is a PrusaLinkError and is reported with its own text.
_async_update_data_swapped_excepts(self, r, t) ==
    CASE r.kind = "timeout" ->
            [self |-> self, outcome |-> TimeoutError]
      [] r.kind \in {"InvalidAuth", "PrusaLinkError"} ->
            [self |-> self, outcome |-> UpdateFailed(r.msg)]
      [] r.kind = "ok" ->
            [self |-> [self EXCEPT !.update_interval =
                                      _get_update_interval(self, r.payload, t)],
             outcome |-> Returned(r.payload)]

\* _async_update_data, from the answer r of the awaited client call on, at time
\* t: the coordinator after it and how it ended. asyncio.timeout(5) raises
\* TimeoutError, which no except clause catches; the two except clauses turn
\* the client's errors into UpdateFailed; only the path past the try block
\* recomputes the interval.
_async_update_data(self, r, t) ==
    CASE r.kind = "timeout" ->
            [self |-> self, outcome |-> TimeoutError]
      [] r.kind = "InvalidAuth" ->
            [self |-> self, outcome |-> UpdateFailed("Invalid authentication")]
      [] r.kind = "PrusaLinkError" ->
            [self |-> self, outcome |-> UpdateFailed(r.msg)]
      [] r.kind = "ok" ->
            [self |-> [self EXCEPT !.update_interval =
                                      _get_update_interval(self, r.payload, t)],
             outcome |-> Returned(r.payload)]

\* DataUpdateCoordinator's refresh around _async_update_data: the value it
\* returns becomes the cached data; when it raises, the data is kept.
async_refresh(self, r, t) ==
    LET res == _async_update_data(self, r, t)
    IN [self |-> IF res.outcome.kind = "return"
                 THEN [res.self EXCEPT !.data = res.outcome.payload]
                 ELSE res.self,
        outcome |-> res.outcome]

NoCoordinators == [c \in Coordinators |-> NoCoordinator]

NoLast ==
    [entry |-> "", coordinator |-> "",
     api |-> [kind |-> "none", payload |-> None, msg |-> ""], outcome |-> NoOutcome]

(* ------------------ the coordinators, from construction on ------------ *)

\* A refresh of a coordinator (on its timer or on demand) ends: the client call
\* awaited under asyncio.timeout(5) has answered, raised, or run into the
\* timeout, and the rest of _async_update_data and of the refresh around it
\* runs at the current time. Nothing is read or written when the call starts,
\* so the time the call takes is the time that passed before this step.
Fetch(e, c) ==
    /\ coordinators[e][c].exists
    /\ \E r \in ApiResults(_fetch_data(c)) :
          LET res == async_refresh(coordinators[e][c], r, now)
          IN /\ coordinators' = [coordinators EXCEPT ![e][c] = res.self]
             /\ last' = [entry |-> e, coordinator |-> c, api |-> r,
                         outcome |-> res.outcome]
    /\ UNCHANGED <<now, entry_version, entry_data, issues, hass_data, pc, refreshing,
                   api, calls, setup_result, unload_result, called_at>>

\* expect_change() assigning the class attribute, which every coordinator of
\* the entry then reads.
ExpectChange_class_attribute(e, c) ==
    /\ coordinators[e][c].exists
    /\ coordinators' = [coordinators EXCEPT
                           ![e] = [d \in Coordinators |-> expect_change(@[d], now)]]
    /\ called_at' = [called_at EXCEPT ![e][c] = now]
    /\ last' = NoLast
    /\ UNCHANGED <<now, entry_version, entry_data, issues, hass_data, pc, refreshing,
                   api, calls, setup_result, unload_result>>

\* A consumer calls expect_change() on a coordinator.
ExpectChange(e, c) ==
    /\ coordinators[e][c].exists
    /\ coordinators' = [coordinators EXCEPT ![e][c] = expect_change(@, now)]
    /\ called_at' = [called_at EXCEPT ![e][c] = now]
    /\ last' = NoLast
    /\ UNCHANGED <<now, entry_version, entry_data, issues, hass_data, pc, refreshing,
                   api, calls, setup_result, unload_result>>

\* The clock advances.
Tick ==
    /\ now + TickStep <= MaxTime
    /\ now' = now + TickStep
    /\ last' = NoLast
    /\ UNCHANGED <<entry_version, entry_data, issues, hass_data, pc, refreshing, api,
                   calls, setup_result, unload_result, coordinators, called_at>>

(* ------------------------ stored configuration ------------------------ *)

\* entry.data is a dict: a function from its keys to their values.
DictMerge(d, upd) ==
    [f \in DOMAIN d \cup DOMAIN upd |-> IF f \in DOMAIN upd THEN upd[f] ELSE d[f]]

DictPop(d, key) == [f \in DOMAIN d \ {key} |-> d[f]]

\* The data a version-1 entry stores: host and API key.
ConfigV1(host, key) ==
    [f \in {CONF_HOST, CONF_API_KEY} |-> IF f = CONF_HOST THEN host ELSE key]

\* The data a version-2 entry stores: host, username and password.
ConfigV2(host, username, password) ==
    [f \in {CONF_HOST, CONF_USERNAME, CONF_PASSWORD} |->
        CASE f = CONF_HOST -> host
          [] f = CONF_USERNAME -> username
          [] f = CONF_PASSWORD -> password]

HostOf(e) == IF e = "e1" THEN "h1" ELSE "h2"
TitleOf(e) == IF e = "e1" THEN "printer 1" ELSE "printer 2"

\* The new data without the data.pop(api_key).
MigratedData_no_pop(d) ==
    LET upd == [f \in {CONF_USERNAME, CONF_PASSWORD} |->
                   IF f = CONF_USERNAME THEN "maker" ELSE d[CONF_API_KEY]]
    IN DictMerge(d, upd)

\* _migrate_to_version_2, the new data: {**entry.data, username: "maker",
\* password: entry.data[api_key]} and then data.pop(api_key).
MigratedData(d) ==
    LET upd == [f \in {CONF_USERNAME, CONF_PASSWORD} |->
                   IF f = CONF_USERNAME THEN "maker" ELSE d[CONF_API_KEY]]
    IN DictPop(DictMerge(d, upd), CONF_API_KEY)

(* --------------------------- issue registry --------------------------- *)

\* The registry keeps one issue per (domain, issue id).
async_create_issue(reg, domain, issue_id, issue) ==
    [k \in DOMAIN reg \cup {<<domain, issue_id>>} |->
        IF k = <<domain, issue_id>> THEN issue ELSE reg[k]]

async_delete_issue(reg, domain, issue_id) ==
    [k \in DOMAIN reg \ {<<domain, issue_id>>} |-> reg[k]]

\* The issue _migrate_to_version_2 raises for an entry.
FirmwareIssue(e) ==
    [is_fixable |-> FALSE, severity |-> "error",
     translation_key |-> "firmware_5_1_required", entry_title |-> TitleOf(e)]

NoIssues == [k \in {} |-> FirmwareIssue("e1")]

(* ------------------- async_setup_entry, async_unload_entry ------------ *)

\* The coordinators dict of async_setup_entry, all built on one client.
ConstructCoordinators(client, t) ==
    [c \in Coordinators |-> PrusaLinkUpdateCoordinator(client, t)]

ConstructCalls == <<"LegacyStatusCoordinator", "StatusCoordinator", "JobUpdateCoordinator">>

\* async_setup_entry probing whatever the entry's version: an entry past
\* version 1 gets its client from the stored credentials and get_info() is
\* awaited on it as well.
async_setup_entry_always_probe(e) ==
    /\ pc[e] = "not_loaded"
    /\ setup_result' = [setup_result EXCEPT ![e] = "running"]
    /\ unload_result' = [unload_result EXCEPT ![e] = "none"]
    /\ LET data == IF entry_version[e] = 1
                   THEN MigratedData(entry_data[e]) ELSE entry_data[e]
       IN api' = [api EXCEPT ![e] = PrusaLink(data[CONF_HOST], data[CONF_USERNAME],
                                              data[CONF_PASSWORD])]
    /\ calls' = [calls EXCEPT ![e] = <<"PrusaLink", "get_info">>]
    /\ pc' = [pc EXCEPT ![e] = "probe"]
    /\ last' = NoLast
    /\ UNCHANGED <<now, entry_version, entry_data, issues, hass_data, called_at,
                   coordinators, refreshing>>

\* async_setup_entry up to its first await. A version-1 entry enters
\* _migrate_to_version_2: the new data, a client on the new credentials, and
\* the probe api.get_info() is awaited. Any other entry gets its client from
\* the stored credentials and its three coordinators, and the first refresh of
\* the first one is awaited.
async_setup_entry(e) ==
    /\ pc[e] = "not_loaded"
    /\ setup_result' = [setup_result EXCEPT ![e] = "running"]
    /\ unload_result' = [unload_result EXCEPT ![e] = "none"]
    /\ IF entry_version[e] = 1
       THEN LET data == MigratedData(entry_data[e])
            IN /\ api' = [api EXCEPT ![e] = PrusaLink(data[CONF_HOST],
                                                      data[CONF_USERNAME],
                                                      data[CONF_PASSWORD])]
               /\ calls' = [calls EXCEPT ![e] = <<"PrusaLink", "get_info">>]
               /\ pc' = [pc EXCEPT ![e] = "probe"]
               /\ UNCHANGED <<coordinators, refreshing>>
       ELSE LET client == PrusaLink(entry_data[e][CONF_HOST],
                                    entry_data[e][CONF_USERNAME],
                                    entry_data[e][CONF_PASSWORD])
            IN /\ api' = [api EXCEPT ![e] = client]
               /\ calls' = [calls EXCEPT ![e] = <<"PrusaLink">> \o ConstructCalls]
               /\ coordinators' = [coordinators EXCEPT
                                      ![e] = ConstructCoordinators(client, now)]
               /\ refreshing' = [refreshing EXCEPT ![e] = 1]
               /\ pc' = [pc EXCEPT ![e] = "first_refresh"]
    /\ last' = NoLast
    /\ UNCHANGED <<now, entry_version, entry_data, issues, hass_data, called_at>>

\* The InvalidAuth branch without its "return None": the issue is created and
\* the function goes on to store the new data and version; the setup then
\* still ends unsuccessfully.
MigrateInvalidAuth_no_return(e) ==
    /\ pc[e] = "probe"
    /\ issues' = async_create_issue(issues, DOMAIN_NAME, ISSUE_ID, FirmwareIssue(e))
    /\ calls' = [calls EXCEPT ![e] = @ \o <<"async_create_issue", "async_update_entry">>]
    /\ entry_version' = [entry_version EXCEPT ![e] = 2]
    /\ entry_data' = [entry_data EXCEPT ![e] = MigratedData(@)]
    /\ setup_result' = [setup_result EXCEPT ![e] = "False"]
    /\ api' = [api EXCEPT ![e] = NoApi]
    /\ pc' = [pc EXCEPT ![e] = "not_loaded"]
    /\ last' = NoLast
    /\ UNCHANGED <<now, hass_data, refreshing, unload_result, coordinators, called_at>>

\* The probe raises InvalidAuth: the issue is created, _migrate_to_version_2
\* returns None and async_setup_entry returns False.
MigrateInvalidAuth(e) ==
    /\ pc[e] = "probe"
    /\ issues' = async_create_issue(issues, DOMAIN_NAME, ISSUE_ID, FirmwareIssue(e))
    /\ calls' = [calls EXCEPT ![e] = Append(@, "async_create_issue")]
    /\ setup_result' = [setup_result EXCEPT ![e] = "False"]
    /\ api' = [api EXCEPT ![e] = NoApi]
    /\ pc' = [pc EXCEPT ![e] = "not_loaded"]
    /\ last' = NoLast
    /\ UNCHANGED <<now, entry_version, entry_data, hass_data, refreshing, unload_result,
                   coordinators, called_at>>

\* The probe's except clause naming PrusaLinkError: every client error raises
\* the issue and makes the setup return False.
MigrateError_broad_except(e) ==
    /\ pc[e] = "probe"
    /\ issues' = async_create_issue(issues, DOMAIN_NAME, ISSUE_ID, FirmwareIssue(e))
    /\ calls' = [calls EXCEPT ![e] = Append(@, "async_create_issue")]
    /\ setup_result' = [setup_result EXCEPT ![e] = "PrusaLinkError"]
    /\ api' = [api EXCEPT ![e] = NoApi]
    /\ pc' = [pc EXCEPT ![e] = "not_loaded"]
    /\ last' = NoLast
    /\ UNCHANGED <<now, entry_version, entry_data, hass_data, refreshing, unload_result,
                   coordinators, called_at>>

\* The probe raises another PrusaLinkError: no except clause catches it, and
\* it leaves _migrate_to_version_2 and async_setup_entry.
MigrateError(e) ==
    /\ pc[e] = "probe"
    /\ setup_result' = [setup_result EXCEPT ![e] = "PrusaLinkError"]
    /\ api' = [api EXCEPT ![e] = NoApi]
    /\ pc' = [pc EXCEPT ![e] = "not_loaded"]
    /\ last' = NoLast
    /\ UNCHANGED <<now, entry_version, entry_data, issues, hass_data, refreshing, calls,
                   unload_result, coordinators, called_at>>

\* The successful migration without async_setup_entry's async_delete_issue.
MigrateOk_no_delete(e) ==
    /\ pc[e] = "probe"
    /\ entry_version' = [entry_version EXCEPT ![e] = 2]
    /\ entry_data' = [entry_data EXCEPT ![e] = MigratedData(@)]
    /\ calls' = [calls EXCEPT ![e] = @ \o <<"async_update_entry">> \o ConstructCalls]
    /\ coordinators' = [coordinators EXCEPT ![e] = ConstructCoordinators(api[e], now)]
    /\ refreshing' = [refreshing EXCEPT ![e] = 1]
    /\ pc' = [pc EXCEPT ![e] = "first_refresh"]
    /\ last' = NoLast
    /\ UNCHANGED <<now, issues, hass_data, api, setup_result, unload_result, called_at>>

\* The successful migration that sets entry.version and does not pass the new
\* data to async_update_entry.
MigrateOk_version_only(e) ==
    /\ pc[e] = "probe"
    /\ entry_version' = [entry_version EXCEPT ![e] = 2]
    /\ issues' = async_delete_issue(issues, DOMAIN_NAME, ISSUE_ID)
    /\ calls' = [calls EXCEPT ![e] =
                    @ \o <<"async_update_entry", "async_delete_issue">> \o ConstructCalls]
    /\ coordinators' = [coordinators EXCEPT ![e] = ConstructCoordinators(api[e], now)]
    /\ refreshing' = [refreshing EXCEPT ![e] = 1]
    /\ pc' = [pc EXCEPT ![e] = "first_refresh"]
    /\ last' = NoLast
    /\ UNCHANGED <<now, entry_data, hass_data, api, setup_result, unload_result,
                   called_at>>

\* The probe answers: entry.version = 2, async_update_entry(entry, data=data),
\* the client is returned; async_setup_entry deletes the issue, builds the
\* three coordinators on that client and awaits the first refresh of the
\* first one.
MigrateOk(e) ==
    /\ pc[e] = "probe"
    /\ entry_version' = [entry_version EXCEPT ![e] = 2]
    /\ entry_data' = [entry_data EXCEPT ![e] = MigratedData(@)]
    /\ issues' = async_delete_issue(issues, DOMAIN_NAME, ISSUE_ID)
    /\ calls' = [calls EXCEPT ![e] =
                    @ \o <<"async_update_entry", "async_delete_issue">> \o ConstructCalls]
    /\ coordinators' = [coordinators EXCEPT ![e] = ConstructCoordinators(api[e], now)]
    /\ refreshing' = [refreshing EXCEPT ![e] = 1]
    /\ pc' = [pc EXCEPT ![e] = "first_refresh"]
    /\ last' = NoLast
    /\ UNCHANGED <<now, hass_data, api, setup_result, unload_result, called_at>>

\* The loop of first refreshes undoing the migration of this setup when a
\* first refresh fails: the entry is put back to version 1 and its API key.
FirstRefresh_rollback(e) ==
    /\ pc[e] = "first_refresh"
    /\ LET c == CoordinatorOrder[refreshing[e]]
           migrated == \E i \in DOMAIN calls[e] : calls[e][i] = "async_update_entry"
       IN \E r \in ApiResults(_fetch_data(c)) :
            LET res == async_refresh(coordinators[e][c], r, now)
            IN /\ last' = [entry |-> e, coordinator |-> c, api |-> r,
                           outcome |-> res.outcome]
               /\ calls' = [calls EXCEPT ![e] = Append(@, c)]
               /\ IF res.outcome.kind = "return"
                  THEN /\ coordinators' = [coordinators EXCEPT ![e][c] = res.self]
                       /\ IF refreshing[e] < Len(CoordinatorOrder)
                          THEN /\ refreshing' = [refreshing EXCEPT ![e] = @ + 1]
                               /\ UNCHANGED <<pc, hass_data>>
                          ELSE /\ refreshing' = [refreshing EXCEPT ![e] = 0]
                               /\ hass_data' = hass_data \cup {e}
                               /\ pc' = [pc EXCEPT ![e] = "forwarding"]
                       /\ UNCHANGED <<setup_result, api, entry_version, entry_data>>
                  ELSE /\ coordinators' = [coordinators EXCEPT ![e] = NoCoordinators]
                       /\ refreshing' = [refreshing EXCEPT ![e] = 0]
                       /\ setup_result' = [setup_result EXCEPT ![e] = "ConfigEntryNotReady"]
                       /\ api' = [api EXCEPT ![e] = NoApi]
                       /\ pc' = [pc EXCEPT ![e] = "not_loaded"]
                       /\ entry_version' = [entry_version EXCEPT
                                               ![e] = IF migrated THEN 1 ELSE @]
                       /\ entry_data' = [entry_data EXCEPT
                              ![e] = IF migrated
                                     THEN ConfigV1(@[CONF_HOST], @[CONF_PASSWORD])
                                     ELSE @]
                       /\ UNCHANGED hass_data
    /\ UNCHANGED <<now, issues, unload_result, called_at>>

\* One pass of the loop "await coordinator.async_config_entry_first_refresh()":
\* the refresh of the coordinator whose turn it is ends. When it fails, the
\* first refresh raises ConfigEntryNotReady and the setup ends there. After
\* the third one, the coordinators are stored in hass.data[DOMAIN] and the
\* forwarding to the platforms is awaited.
FirstRefresh(e) ==
    /\ pc[e] = "first_refresh"
    /\ LET c == CoordinatorOrder[refreshing[e]]
       IN \E r \in ApiResults(_fetch_data(c)) :
            LET res == async_refresh(coordinators[e][c], r, now)
            IN /\ last' = [entry |-> e, coordinator |-> c, api |-> r,
                           outcome |-> res.outcome]
               /\ calls' = [calls EXCEPT ![e] = Append(@, c)]
               /\ IF res.outcome.kind = "return"
                  THEN /\ coordinators' = [coordinators EXCEPT ![e][c] = res.self]
                       /\ IF refreshing[e] < Len(CoordinatorOrder)
                          THEN /\ refreshing' = [refreshing EXCEPT ![e] = @ + 1]
                               /\ UNCHANGED <<pc, hass_data>>
                          ELSE /\ refreshing' = [refreshing EXCEPT ![e] = 0]
                               /\ hass_data' = hass_data \cup {e}
                               /\ pc' = [pc EXCEPT ![e] = "forwarding"]
                       /\ UNCHANGED <<setup_result, api>>
                  ELSE /\ coordinators' = [coordinators EXCEPT ![e] = NoCoordinators]
                       /\ refreshing' = [refreshing EXCEPT ![e] = 0]
                       /\ setup_result' = [setup_result EXCEPT ![e] = "ConfigEntryNotReady"]
                       /\ api' = [api EXCEPT ![e] = NoApi]
                       /\ pc' = [pc EXCEPT ![e] = "not_loaded"]
                       /\ UNCHANGED hass_data
    /\ UNCHANGED <<now, entry_version, entry_data, issues, unload_result, called_at>>

\* async_forward_entry_setups ends and async_setup_entry returns True.
ForwardDone(e) ==
    /\ pc[e] = "forwarding"
    /\ calls' = [calls EXCEPT ![e] = Append(@, "async_forward_entry_setups")]
    /\ setup_result' = [setup_result EXCEPT ![e] = "True"]
    /\ pc' = [pc EXCEPT ![e] = "loaded"]
    /\ last' = NoLast
    /\ UNCHANGED <<now, entry_version, entry_data, issues, hass_data, refreshing, api,
                   unload_result, coordinators, called_at>>

\* async_unload_entry popping the coordinators whatever the platforms answer.
async_unload_entry_always_pop(e) ==
    /\ pc[e] = "loaded"
    /\ \E unload_ok \in BOOLEAN :
          /\ unload_result' = [unload_result EXCEPT
                                  ![e] = IF unload_ok THEN "True" ELSE "False"]
          /\ hass_data' = hass_data \ {e}
          /\ coordinators' = [coordinators EXCEPT ![e] = NoCoordinators]
          /\ api' = [api EXCEPT ![e] = NoApi]
          /\ pc' = [pc EXCEPT ![e] = IF unload_ok THEN "not_loaded" ELSE "failed_unload"]
    /\ last' = NoLast
    /\ UNCHANGED <<now, entry_version, entry_data, issues, refreshing, calls,
                   setup_result, called_at>>

\* async_unload_entry: when the platforms unload, the entry's coordinators are
\* popped from hass.data[DOMAIN]; the platforms' answer is returned.
async_unload_entry(e) ==
    /\ pc[e] = "loaded"
    /\ \E unload_ok \in BOOLEAN :
          /\ unload_result' = [unload_result EXCEPT
                                  ![e] = IF unload_ok THEN "True" ELSE "False"]
          /\ IF unload_ok
             THEN /\ hass_data' = hass_data \ {e}
                  /\ coordinators' = [coordinators EXCEPT ![e] = NoCoordinators]
                  /\ api' = [api EXCEPT ![e] = NoApi]
                  /\ pc' = [pc EXCEPT ![e] = "not_loaded"]
             ELSE /\ pc' = [pc EXCEPT ![e] = "failed_unload"]
                  /\ UNCHANGED <<hass_data, coordinators, api>>
    /\ last' = NoLast
    /\ UNCHANGED <<now, entry_version, entry_data, issues, refreshing, calls,
                   setup_result, called_at>>

(* --------------------------- specifications --------------------------- *)

\* What every specification starts from, but for the entries themselves.
InitRest ==
    /\ now = 0
    /\ issues = NoIssues
    /\ hass_data = {}
    /\ unload_result = [e \in Entries |-> "none"]
    /\ called_at = [e \in Entries |-> [c \in Coordinators |-> -1]]
    /\ last = NoLast

\* Config entries as the config flow stored them, at version 1 or 2, none of
\* them set up yet.
Init ==
    /\ InitRest
    /\ entry_version \in [Entries -> {1, 2}]
    /\ \E k \in [Entries -> 1..NumKeys] :
          entry_data = [e \in Entries |->
                           IF entry_version[e] = 1
                           THEN ConfigV1(HostOf(e), k[e])
                           ELSE ConfigV2(HostOf(e), "maker", k[e])]
    /\ pc = [e \in Entries |-> "not_loaded"]
    /\ refreshing = [e \in Entries |-> 0]
    /\ api = [e \in Entries |-> NoApi]
    /\ calls = [e \in Entries |-> <<>>]
    /\ setup_result = [e \in Entries |-> "none"]
    /\ coordinators = [e \in Entries |-> NoCoordinators]

\* Setup, migration and unload of the entries.
Next ==
    \E e \in Entries :
        \/ async_setup_entry(e)
        \/ MigrateInvalidAuth(e)
        \/ MigrateError(e)
        \/ MigrateOk(e)
        \/ FirstRefresh(e)
        \/ ForwardDone(e)
        \/ async_unload_entry(e)

Spec == Init /\ [][Next]_vars

\* The coordinators of one version-2 entry, just constructed by
\* async_setup_entry; the other entry is not set up.
PolledEntry == "e1"

InitPoll ==
    /\ InitRest
    /\ entry_version = [e \in Entries |-> 2]
    /\ entry_data = [e \in Entries |-> ConfigV2(HostOf(e), "maker", 1)]
    /\ api = [e \in Entries |->
                 IF e = PolledEntry THEN PrusaLink(HostOf(e), "maker", 1) ELSE NoApi]
    /\ coordinators = [e \in Entries |->
                 IF e = PolledEntry
                 THEN ConstructCoordinators(PrusaLink(HostOf(e), "maker", 1), now)
                 ELSE NoCoordinators]
    /\ pc = [e \in Entries |-> IF e = PolledEntry THEN "first_refresh" ELSE "not_loaded"]
    /\ refreshing = [e \in Entries |-> IF e = PolledEntry THEN 1 ELSE 0]
    /\ calls = [e \in Entries |->
                   IF e = PolledEntry THEN <<"PrusaLink">> \o ConstructCalls ELSE <<>>]
    /\ setup_result = [e \in Entries |-> IF e = PolledEntry THEN "running" ELSE "none"]

\* The coordinators from construction on: refreshes, expect_change() and the clock.
NextPoll ==
    \/ \E e \in Entries, c \in Coordinators :
          \/ Fetch(e, c)
          \/ ExpectChange(e, c)
    \/ Tick

SpecPoll == InitPoll /\ [][NextPoll]_vars

(* ------------------------------ claims -------------------------------- *)

\* The refresh that ended in the step just taken was coordinator c's of entry e.
Ended(e, c) == last.entry = e /\ last.coordinator = c

\* C1: after a refresh that succeeds, the coordinator's cached value is the
\* payload its own client call returned in that refresh (get_status for the
\* status coordinator, get_legacy_printer for the legacy one, get_job for the
\* job one), whatever refreshes came before.
C1_CachedIsReturned ==
    \A e \in Entries, c \in Coordinators :
        (Ended(e, c) /\ last.api.kind = "ok") =>
            /\ last.outcome.kind = "return"
            /\ coordinators[e][c].data = last.api.payload
            /\ (c = "status" => last.api.payload[1] = "get_status")
            /\ (c = "legacy_status" => last.api.payload[1] = "get_legacy_printer")
            /\ (c = "job" => last.api.payload[1] = "get_job")

\* C1's case: a job refresh has just replaced the cache with the second
\* payload, after the other two coordinators have cached values of their own.
C1_Witness ==
    /\ Ended(PolledEntry, "job")
    /\ last.api.kind = "ok"
    /\ coordinators[PolledEntry]["job"].data = <<"get_job", 2>>
    /\ coordinators[PolledEntry]["status"].data = <<"get_status", 1>>
    /\ coordinators[PolledEntry]["legacy_status"].data = <<"get_legacy_printer", 2>>

\* C2: a refresh in which the client raises a PrusaLinkError other than
\* InvalidAuth ends in UpdateFailed with that error's message, and the cached
\* value is the same after it as before it.
C2_GenericErrorKeepsCache ==
    [][\A e \in Entries, c \in Coordinators :
          (last'.entry = e /\ last'.coordinator = c /\ last'.api.kind = "PrusaLinkError") =>
              /\ last'.outcome.kind = "UpdateFailed"
              /\ last'.outcome.msg = last'.api.msg
              /\ coordinators'[e][c].data = coordinators[e][c].data]_vars

\* C2's case: the client has just raised "bad gateway" on a coordinator that
\* holds a cached value.
C2_Witness ==
    /\ Ended(PolledEntry, "status")
    /\ last.api.kind = "PrusaLinkError"
    /\ last.api.msg = "bad gateway"
    /\ coordinators[PolledEntry]["status"].data = <<"get_status", 2>>

Policy(e, c) ==
    IF coordinators[e][c].expect_change_until > now THEN 5 ELSE 30

\* C4 as stated: after every refresh, failed ones included, the interval is 5
\* seconds if the expiry is still in the future and 30 seconds otherwise.
C4_RecomputedAfterEveryAttempt ==
    \A e \in Entries, c \in Coordinators :
        Ended(e, c) => coordinators[e][c].update_interval = Policy(e, c)

\* C4, amended: after a refresh that succeeds the interval is 5 seconds if the
\* expiry is still in the future and 30 seconds otherwise; a refresh that
\* fails (client error or timeout) leaves the interval as it was.
C4_RecomputedOnSuccessOnly ==
    [][\A e \in Entries, c \in Coordinators :
          (last'.entry = e /\ last'.coordinator = c) =>
              IF last'.api.kind = "ok"
              THEN coordinators'[e][c].update_interval =
                      (IF coordinators'[e][c].expect_change_until > now' THEN 5 ELSE 30)
              ELSE coordinators'[e][c].update_interval =
                      coordinators[e][c].update_interval]_vars

\* C4's case: a refresh has just failed after the expiry passed, and the
\* interval is still the short one.
C4_Witness ==
    \E c \in Coordinators :
        /\ Ended(PolledEntry, c)
        /\ last.api.kind # "ok"
        /\ called_at[PolledEntry][c] >= 0
        /\ coordinators[PolledEntry][c].expect_change_until <= now
        /\ coordinators[PolledEntry][c].update_interval = 5

\* C5: a recomputation of a coordinator's interval less than 30 seconds after
\* the last expect_change() on it yields 5 seconds; one that comes 30 seconds
\* or more after the last call yields 30 seconds.
C5_ExpectChangeWindow ==
    \A e \in Entries, c \in Coordinators :
        (Ended(e, c) /\ last.outcome.kind = "return" /\ called_at[e][c] >= 0) =>
            /\ (now - called_at[e][c] < 30 => coordinators[e][c].update_interval = 5)
            /\ (now - called_at[e][c] >= 30 => coordinators[e][c].update_interval = 30)

\* C5's case: a recomputation 30 seconds after the call has just yielded 30
\* seconds for one coordinator, while another one, called later, holds the 5
\* seconds of a recomputation within its window.
C5_Witness ==
    \E c, d \in Coordinators :
        /\ Ended(PolledEntry, c)
        /\ last.outcome.kind = "return"
        /\ called_at[PolledEntry][c] >= 0
        /\ now - called_at[PolledEntry][c] >= 30
        /\ coordinators[PolledEntry][c].update_interval = 30
        /\ d # c
        /\ called_at[PolledEntry][d] > 0
        /\ now - called_at[PolledEntry][d] < 30
        /\ coordinators[PolledEntry][d].data # None
        /\ coordinators[PolledEntry][d].update_interval = 5

\* C6: the interval of every coordinator is 5 or 30 seconds in every state,
\* and 30 seconds as long as expect_change() was never called on it, from its
\* construction on.
C6_IntervalIsShortOrLong ==
    \A e \in Entries, c \in Coordinators :
        coordinators[e][c].exists =>
            /\ coordinators[e][c].update_interval \in {5, 30}
            /\ (called_at[e][c] = -1 => coordinators[e][c].update_interval = 30)

\* C6's case: a coordinator never refreshed and never called holds 30
\* seconds, beside one that holds 5 seconds.
C6_Witness ==
    /\ coordinators[PolledEntry]["job"].exists
    /\ coordinators[PolledEntry]["job"].data = None
    /\ called_at[PolledEntry]["job"] = -1
    /\ coordinators[PolledEntry]["job"].update_interval = 30
    /\ coordinators[PolledEntry]["status"].update_interval = 5

\* How often a setup has made the call x, whether it has, and where first.
Count(cs, x) == Cardinality({i \in DOMAIN cs : cs[i] = x})
Called(cs, x) == Count(cs, x) > 0
FirstIndex(cs, x) == CHOOSE i \in DOMAIN cs : cs[i] = x /\ \A j \in 1..(i - 1) : cs[j] # x

\* The step in which the migration probe of entry e answers.
ProbeSucceeds(e) == pc[e] = "probe" /\ pc'[e] = "first_refresh"

\* The step in which the setup of entry e returns False.
ProbeFailsAuth(e) == pc[e] = "probe" /\ setup_result'[e] = "False"

\* C7: the setup of a version-1 entry probes with the entry's host, username
\* "maker" and the old API key as password; when the probe succeeds, the
\* stored data holds every old field but api_key, unchanged, plus username
\* "maker" and the old api_key value as password, and the stored version is 2.
C7_MigrationRewritesConfig ==
    /\ [](\A e \in Entries :
            pc[e] = "probe" =>
                /\ api[e].host = entry_data[e]["host"]
                /\ api[e].username = "maker"
                /\ api[e].password = entry_data[e]["api_key"])
    /\ [][\A e \in Entries :
            ProbeSucceeds(e) =>
                /\ entry_version'[e] = 2
                /\ DOMAIN entry_data'[e] =
                      (DOMAIN entry_data[e] \ {"api_key"}) \cup {"username", "password"}
                /\ entry_data'[e]["username"] = "maker"
                /\ entry_data'[e]["password"] = entry_data[e]["api_key"]
                /\ \A f \in DOMAIN entry_data[e] \ {"api_key", "username", "password"} :
                      entry_data'[e][f] = entry_data[e][f]]_vars

\* C7's case: the entry {host: h1, api_key: 2} has been migrated to
\* {host: h1, username: maker, password: 2} at version 2.
C7_Witness ==
    /\ Called(calls["e1"], "async_update_entry")
    /\ entry_version["e1"] = 2
    /\ DOMAIN entry_data["e1"] = {"host", "username", "password"}
    /\ entry_data["e1"]["host"] = "h1"
    /\ entry_data["e1"]["username"] = "maker"
    /\ entry_data["e1"]["password"] = 2

\* C8: when the migration probe fails with an authentication error, the stored
\* data and version are as before (version 1, with api_key), the setup returns
\* False with no coordinator constructed and nothing registered, and the
\* registry holds the firmware_5_1_required issue and no other record, however
\* many setups failed that way before.
C8_AuthFailureKeepsConfig ==
    [][\A e \in Entries :
          ProbeFailsAuth(e) =>
              /\ entry_data' = entry_data
              /\ entry_version' = entry_version
              /\ entry_version'[e] = 1
              /\ "api_key" \in DOMAIN entry_data'[e]
              /\ pc'[e] = "not_loaded"
              /\ \A c \in Coordinators : ~coordinators'[e][c].exists
              /\ ~Called(calls'[e], "LegacyStatusCoordinator")
              /\ ~Called(calls'[e], "StatusCoordinator")
              /\ ~Called(calls'[e], "JobUpdateCoordinator")
              /\ e \notin hass_data'
              /\ DOMAIN issues' = {<<"prusalink", "firmware_5_1_required">>}
              /\ Cardinality(DOMAIN issues') = 1]_vars

\* C8's case: the setups of both version-1 entries have failed with an
\* authentication error, the second one after the first.
C8_Witness ==
    /\ setup_result["e1"] = "False"
    /\ setup_result["e2"] = "False"
    /\ entry_version = [e \in Entries |-> 1]
    /\ <<"prusalink", "firmware_5_1_required">> \in DOMAIN issues
    /\ issues[<<"prusalink", "firmware_5_1_required">>].entry_title = "printer 2"

\* C9: the stored version of an entry never decreases, and the setup of an
\* entry at version 2 or higher makes no probe call and leaves the stored data
\* alone.
C9_NoWayBackToV1 ==
    [][\A e \in Entries :
          /\ entry_version'[e] >= entry_version[e]
          /\ entry_version[e] >= 2 =>
                /\ pc'[e] # "probe"
                /\ entry_data'[e] = entry_data[e]
                /\ (pc[e] = "not_loaded" /\ pc'[e] # "not_loaded") =>
                       ~Called(calls'[e], "get_info")
                /\ pc[e] # "not_loaded" =>
                       Count(calls'[e], "get_info") = Count(calls[e], "get_info")]_vars

\* C9's case: an entry at version 2 is loaded by a setup that made no probe
\* call, and the other entry, migrated by its setup, then loaded and
\* unloaded, is still at version 2.
C9_Witness ==
    /\ entry_version["e1"] = 2
    /\ pc["e1"] = "loaded"
    /\ ~Called(calls["e1"], "get_info")
    /\ entry_version["e2"] = 2
    /\ Called(calls["e2"], "async_update_entry")
    /\ pc["e2"] = "not_loaded"
    /\ unload_result["e2"] = "True"

\* C10: when the migration probe succeeds, the firmware_5_1_required issue is
\* deleted before the coordinators are constructed, the coordinators are built
\* on the client that made the probe, and that setup calls get_info once and
\* constructs one client.
C10_IssueClearedOneClient ==
    [][\A e \in Entries :
          /\ ProbeSucceeds(e) =>
                /\ <<"prusalink", "firmware_5_1_required">> \notin DOMAIN issues'
                /\ Called(calls'[e], "async_delete_issue")
                /\ \A x \in {"LegacyStatusCoordinator", "StatusCoordinator",
                             "JobUpdateCoordinator"} :
                       /\ Called(calls'[e], x)
                       /\ FirstIndex(calls'[e], "async_delete_issue")
                              < FirstIndex(calls'[e], x)
                /\ api'[e] = api[e]
                /\ \A c \in Coordinators :
                       coordinators'[e][c].exists /\ coordinators'[e][c].api = api[e]
          /\ Called(calls'[e], "async_update_entry") =>
                /\ Count(calls'[e], "get_info") = 1
                /\ Count(calls'[e], "PrusaLink") = 1]_vars

\* C10's case: an entry has been migrated and loaded after the other entry's
\* failed migration had raised the issue, and the issue is gone.
C10_Witness ==
    /\ setup_result["e2"] = "False"
    /\ Called(calls["e1"], "async_update_entry")
    /\ pc["e1"] = "loaded"
    /\ DOMAIN issues = {}

\* The step in which the migration probe of entry e raises a client error that
\* is no authentication error.
ProbeFailsOther(e) == pc[e] = "probe" /\ setup_result'[e] = "PrusaLinkError"

\* C11: when the migration probe fails with a client error that is no
\* authentication error, the setup fails (the error leaves async_setup_entry,
\* nothing is constructed or registered), no firmware_5_1_required issue is
\* created, and the stored data, the stored version and the issue registry
\* are as before.
C11_OtherErrorChangesNothing ==
    [][\A e \in Entries :
          ProbeFailsOther(e) =>
              /\ entry_data' = entry_data
              /\ entry_version' = entry_version
              /\ issues' = issues
              /\ ~Called(calls'[e], "async_create_issue")
              /\ pc'[e] = "not_loaded"
              /\ setup_result'[e] # "True"
              /\ \A c \in Coordinators : ~coordinators'[e][c].exists
              /\ hass_data' = hass_data]_vars

\* C11's case: the probe of one entry has failed with such an error while the
\* issue the other entry's failed migration raised is on record, still the
\* other entry's.
C11_Witness ==
    /\ setup_result["e1"] = "PrusaLinkError"
    /\ entry_version["e1"] = 1
    /\ "api_key" \in DOMAIN entry_data["e1"]
    /\ setup_result["e2"] = "False"
    /\ DOMAIN issues = {<<"prusalink", "firmware_5_1_required">>}
    /\ issues[<<"prusalink", "firmware_5_1_required">>].entry_title = "printer 2"

\* C12: a refresh in which the client raises InvalidAuth ends in UpdateFailed
\* with the text "Invalid authentication" and leaves the coordinator as it
\* was, cached value included; the coordinator can be refreshed again, and a
\* refresh of it that succeeds next sets the cached value to the returned
\* payload and the interval by the two-state policy.
C12_AuthFailureIsRecoverable ==
    /\ [][\A e \in Entries, c \in Coordinators :
            (last'.entry = e /\ last'.coordinator = c /\ last'.api.kind = "InvalidAuth") =>
                /\ last'.outcome.kind = "UpdateFailed"
                /\ last'.outcome.msg = "Invalid authentication"
                /\ coordinators'[e][c] = coordinators[e][c]]_vars
    /\ [](\A e \in Entries, c \in Coordinators :
            (Ended(e, c) /\ last.api.kind = "InvalidAuth") =>
                ENABLED (Fetch(e, c) /\ last'.api.kind = "ok"))
    /\ [][\A e \in Entries, c \in Coordinators :
            (/\ Ended(e, c) /\ last.api.kind = "InvalidAuth"
             /\ last'.entry = e /\ last'.coordinator = c /\ last'.api.kind = "ok") =>
                /\ coordinators'[e][c].data = last'.api.payload
                /\ coordinators'[e][c].update_interval =
                      (IF coordinators'[e][c].expect_change_until > now' THEN 5 ELSE 30)]_vars

\* C12's case: the client has just raised InvalidAuth on a coordinator that
\* holds a cached value and the short interval.
C12_Witness ==
    /\ Ended(PolledEntry, "job")
    /\ last.api.kind = "InvalidAuth"
    /\ coordinators[PolledEntry]["job"].data = <<"get_job", 1>>
    /\ coordinators[PolledEntry]["job"].update_interval = 5

\* The first refreshes a setup has made so far, in the order it made them.
IsRefresh(x) == x \in {"legacy_status", "status", "job"}
Refreshes(e) == SelectSeq(calls[e], IsRefresh)
IsPrefix(p, q) == Len(p) <= Len(q) /\ \A i \in 1..Len(p) : p[i] = q[i]

\* C13: a setup makes its first refreshes one after the other in the order
\* legacy status, status, job, each one only after the one before has
\* succeeded; the coordinators are registered under the entry and the
\* platforms forwarded only after all three have succeeded; a first refresh
\* that fails ends the setup with nothing registered for the entry.
C13_FirstRefreshesInOrder ==
    /\ [](\A e \in Entries :
            /\ IsPrefix(Refreshes(e), <<"legacy_status", "status", "job">>)
            /\ pc[e] = "first_refresh" =>
                  /\ \A i \in 1..Len(Refreshes(e)) :
                        coordinators[e][Refreshes(e)[i]].data # None
                  /\ Len(Refreshes(e)) < 3
                  /\ e \notin hass_data
                  /\ ~Called(calls[e], "async_forward_entry_setups")
            /\ e \in hass_data =>
                  /\ Refreshes(e) = <<"legacy_status", "status", "job">>
                  /\ \A c \in Coordinators : coordinators[e][c].data # None
            /\ Called(calls[e], "async_forward_entry_setups") =>
                  Refreshes(e) = <<"legacy_status", "status", "job">>)
    /\ [][\A e \in Entries :
            (pc[e] = "first_refresh" /\ setup_result'[e] = "ConfigEntryNotReady") =>
                /\ e \notin hass_data'
                /\ pc'[e] = "not_loaded"
                /\ ~Called(calls'[e], "async_forward_entry_setups")]_vars

\* C13's case: one setup has ended at its second first refresh, the status
\* one, with nothing registered, and the other entry is registered and
\* loaded after its three.
C13_Witness ==
    /\ setup_result["e1"] = "ConfigEntryNotReady"
    /\ Refreshes("e1") = <<"legacy_status", "status">>
    /\ "e1" \notin hass_data
    /\ pc["e2"] = "loaded"
    /\ "e2" \in hass_data
    /\ Refreshes("e2") = <<"legacy_status", "status", "job">>

\* The step in which async_unload_entry of entry e returns.
Unloads(e) == pc[e] = "loaded" /\ pc'[e] # "loaded"

\* C14: async_unload_entry removes the entry's coordinators from
\* hass.data[DOMAIN] if and only if it returns True, the platforms' answer;
\* when it returns False they stay registered as they are; the coordinators
\* of the other entries are not touched.
C14_UnloadPopsOnSuccessOnly ==
    [][\A e \in Entries :
          Unloads(e) =>
              /\ unload_result'[e] \in {"True", "False"}
              /\ unload_result'[e] = "True" <=> e \notin hass_data'
              /\ unload_result'[e] = "False" =>
                    /\ e \in hass_data'
                    /\ coordinators'[e] = coordinators[e]
              /\ \A f \in Entries \ {e} :
                    /\ f \in hass_data' <=> f \in hass_data
                    /\ coordinators'[f] = coordinators[f]]_vars

\* C14's case: the unload of one entry has returned False and left its
\* coordinators registered, the unload of the other has returned True and
\* removed them.
C14_Witness ==
    /\ unload_result["e1"] = "False"
    /\ "e1" \in hass_data
    /\ \A c \in Coordinators : coordinators["e1"][c].exists
    /\ unload_result["e2"] = "True"
    /\ "e2" \notin hass_data

\* C15: a refresh (successful or failed) or an expect_change() on one
\* coordinator changes neither the cached value, nor the expiry, nor the
\* interval of another coordinator, in whatever order the three coordinators'
\* refreshes end.
C15_CoordinatorsIsolated ==
    [][\A e \in Entries, c \in Coordinators :
          (\/ last'.entry = e /\ last'.coordinator = c
           \/ called_at'[e][c] # called_at[e][c]
           \/ coordinators'[e][c] # coordinators[e][c]) =>
              \A d \in Coordinators \ {c} :
                  /\ coordinators'[e][d].data = coordinators[e][d].data
                  /\ coordinators'[e][d].expect_change_until =
                        coordinators[e][d].expect_change_until
                  /\ coordinators'[e][d].update_interval =
                        coordinators[e][d].update_interval]_vars

\* C15's case: a refresh of the legacy coordinator has just failed, after
\* refreshes and calls on the other two in between, and the three hold
\* different values, expiries and intervals.
C15_Witness ==
    /\ Ended(PolledEntry, "legacy_status")
    /\ last.api.kind = "PrusaLinkError"
    /\ coordinators[PolledEntry]["legacy_status"].data = <<"get_legacy_printer", 1>>
    /\ coordinators[PolledEntry]["legacy_status"].expect_change_until = 0
    /\ coordinators[PolledEntry]["status"].data = <<"get_status", 2>>
    /\ coordinators[PolledEntry]["status"].expect_change_until = 40
    /\ coordinators[PolledEntry]["status"].update_interval = 5
    /\ coordinators[PolledEntry]["job"].data = None
    /\ coordinators[PolledEntry]["job"].expect_change_until = 30
    /\ coordinators[PolledEntry]["job"].update_interval = 30

\* C16: in every state the stored data has the shape of the stored version:
\* at version 1 it holds api_key and neither username nor password, at
\* version 2 it holds username and password and no api_key. The version and
\* the data change in one step, so no state in between is there to be seen.
C16_ShapeMatchesVersion ==
    \A e \in Entries :
        /\ entry_version[e] \in {1, 2}
        /\ entry_version[e] = 1 =>
              /\ "api_key" \in DOMAIN entry_data[e]
              /\ "username" \notin DOMAIN entry_data[e]
              /\ "password" \notin DOMAIN entry_data[e]
        /\ entry_version[e] = 2 =>
              /\ "username" \in DOMAIN entry_data[e]
              /\ "password" \in DOMAIN entry_data[e]
              /\ "api_key" \notin DOMAIN entry_data[e]

\* C16's case: one entry has been migrated to version 2 and its first refresh
\* is awaited, while the other one is at version 1 with its probe awaited.
C16_Witness ==
    /\ entry_version["e1"] = 2
    /\ Called(calls["e1"], "async_update_entry")
    /\ pc["e1"] = "first_refresh"
    /\ DOMAIN entry_data["e1"] = {"host", "username", "password"}
    /\ entry_version["e2"] = 1
    /\ pc["e2"] = "probe"
    /\ DOMAIN entry_data["e2"] = {"host", "api_key"}

\* C17: whenever the last setup of an entry has failed the migration probe
\* with an authentication error and the entry is still at version 1, the
\* firmware_5_1_required issue is on record, whatever the other entries'
\* setups have done since.
C17_IssueStaysWhileAnEntryFails ==
    \A e \in Entries :
        (setup_result[e] = "False" /\ entry_version[e] = 1) =>
            <<"prusalink", "firmware_5_1_required">> \in DOMAIN issues

\* C18: a step in which expect_change() is called on a coordinator sets its
\* expiry to now + 30 and leaves its interval, its cached value and the clock
\* as they were; the interval of a coordinator turns to 5 seconds only in a
\* step that ends a successful fetch of that coordinator strictly before the
\* expiry of the last call; and a fetch that succeeds at the expiry or later
\* leaves 30 seconds, so a window with no successful fetch in it never gives
\* 5 seconds.
C18_ExpectChangeOnlySetsExpiry ==
    [][\A e \in Entries, c \in Coordinators :
          /\ (\/ called_at'[e][c] # called_at[e][c]
              \/ coordinators'[e][c].expect_change_until #
                     coordinators[e][c].expect_change_until) =>
                 /\ called_at'[e][c] = now
                 /\ coordinators'[e][c].expect_change_until = now + 30
                 /\ coordinators'[e][c].update_interval = coordinators[e][c].update_interval
                 /\ coordinators'[e][c].data = coordinators[e][c].data
                 /\ now' = now
          /\ (coordinators[e][c].update_interval # 5 /\
              coordinators'[e][c].update_interval = 5) =>
                 /\ last'.entry = e
                 /\ last'.coordinator = c
                 /\ last'.api.kind = "ok"
                 /\ called_at'[e][c] >= 0
                 /\ now' < called_at'[e][c] + 30
                 /\ now' < coordinators'[e][c].expect_change_until
          /\ (/\ last'.entry = e
              /\ last'.coordinator = c
              /\ last'.api.kind = "ok"
              /\ now' >= coordinators'[e][c].expect_change_until) =>
                 coordinators'[e][c].update_interval = 30]_vars

\* C18's case: expect_change() was called on a coordinator at time 0, no
\* fetch of it has succeeded since its construction, the window has just
\* run out with one more failed fetch, and the interval is the 30 seconds of
\* the construction.
C18_Witness ==
    \E c \in Coordinators :
        /\ Ended(PolledEntry, c)
        /\ last.api.kind = "PrusaLinkError"
        /\ called_at[PolledEntry][c] = 0
        /\ now = 30
        /\ coordinators[PolledEntry][c].expect_change_until = 30
        /\ coordinators[PolledEntry][c].data = None
        /\ coordinators[PolledEntry][c].update_interval = 30

\* A setup of the entry that migrated it has ended at a failed first refresh.
MigratedThenNotReady(e) ==
    /\ pc[e] = "not_loaded"
    /\ setup_result[e] = "ConfigEntryNotReady"
    /\ Called(calls[e], "async_update_entry")

\* C19: the migration is committed before the first of the first refreshes:
\* the step from the probe to the first refreshes stores version 2 and the
\* rewritten data and deletes the issue. When a first refresh of that setup
\* then fails, the step that ends the setup changes neither the version, the
\* data nor the issue registry: the entry is at version 2 with host, username
\* and password, and an issue on record, if any, is one that another entry's
\* probe has raised since. The entry stays so until its next setup, and that
\* setup goes to the first refreshes on the stored credentials with no probe.
C19_MigrationSurvivesNotReady ==
    /\ [][\A e \in Entries :
            /\ (pc[e] = "probe" /\ pc'[e] = "first_refresh") =>
                  /\ entry_version'[e] = 2
                  /\ entry_data'[e] = MigratedData(entry_data[e])
                  /\ <<DOMAIN_NAME, ISSUE_ID>> \notin DOMAIN issues'
                  /\ Refreshes(e)' = <<>>
            /\ (/\ pc[e] = "first_refresh"
                /\ Called(calls[e], "async_update_entry")
                /\ pc'[e] = "not_loaded") =>
                  /\ setup_result'[e] = "ConfigEntryNotReady"
                  /\ entry_version[e] = 2
                  /\ entry_version'[e] = 2
                  /\ entry_data'[e] = entry_data[e]
                  /\ DOMAIN entry_data'[e] = {"host", "username", "password"}
                  /\ issues' = issues
                  /\ e \notin hass_data'
            /\ (MigratedThenNotReady(e) /\ pc'[e] # "not_loaded") =>
                  /\ pc'[e] = "first_refresh"
                  /\ ~Called(calls'[e], "get_info")
                  /\ ~Called(calls'[e], "async_update_entry")
                  /\ entry_version'[e] = 2
                  /\ entry_data'[e] = entry_data[e]
                  /\ api'[e] = PrusaLink(entry_data[e]["host"], entry_data[e]["username"],
                                         entry_data[e]["password"])]_vars
    /\ [](\A e \in Entries :
            MigratedThenNotReady(e) =>
                /\ entry_version[e] = 2
                /\ DOMAIN entry_data[e] = {"host", "username", "password"}
                /\ entry_data[e]["username"] = "maker"
                /\ <<DOMAIN_NAME, ISSUE_ID>> \in DOMAIN issues =>
                      issues[<<DOMAIN_NAME, ISSUE_ID>>].entry_title # TitleOf(e))

\* C19's case: the setup that migrated the first entry has ended at a failed
\* first refresh, the second of the three; the entry is at version 2 and no
\* issue is on record.
C19_Witness ==
    /\ MigratedThenNotReady("e1")
    /\ Refreshes("e1") = <<"legacy_status", "status">>
    /\ entry_version["e1"] = 2
    /\ issues = NoIssues

====
